---- MODULE Spec2Model ----
(***************************************************************************)
(* Model of vsphere/resource_vsphere_vmfs_datastore.go: the lifecycle      *)
(* handlers of the vsphere_vmfs_datastore resource (Create, Read, Update,  *)
(* Delete, Import) running against a remote vSphere endpoint whose calls   *)
(* may fail.                                                               *)
(*                                                                         *)
(* Strings that the code takes apart (resource and host identifiers) are   *)
(* sequences of one-character strings.  An error value is a sequence of    *)
(* tokens, <<>> being nil; fmt.Errorf puts the format's own text first and *)
(* the tokens of its arguments after it, so "the text contains error e" is *)
(* "the tokens of e occur in the sequence".                                *)
(***************************************************************************)
EXTENDS Integers, Sequences, FiniteSets, TLC

VARIABLES
    remote,   \* the datastore as the vSphere endpoint holds it
    d,        \* *schema.ResourceData: what d.Id() and d.Get() return
    old,      \* the prior state of d: the old side of HasChange/GetChange
    config,   \* the configuration the handler was called with
    pc,       \* the position of the running handler
    i,        \* index of the disk the handler's loop is at
    ret,      \* the handler's returned error (<<>> is nil), read at pc = "done"
    calls,    \* the calls to its collaborators the handler has made, in order
    env,      \* how the endpoint answers in the polling loops of Delete
    loop      \* the state of Delete's two StateChangeConf loops

vars == <<remote, d, old, config, pc, i, ret, calls, env, loop>>

----------------------------------------------------------------------------
(* Bounds of the model *)

\* longest disk list of a configuration
MaxDisks == 3

\* most "resource in use" answers before the removal primitive's final answer
MaxBusy == 5

\* most "found" answers before the fetch primitive's final answer
MaxFound == 4

\* longest time, in seconds, a remote call of a polling loop takes
MaxCallTime == 1

\* longest identifier, in characters, given to Import
MaxIdLen == 3

\* the disk identifiers configurations are drawn from
Disks == {"disk-a", "disk-b", "disk-c"}

\* the display names and folders configurations are drawn from
Names == {"ds-one", "ds-two"}
Folders == {"", "/", "/dc-folder", "dc-folder"}

----------------------------------------------------------------------------
(* Values *)

Range(s) == {s[k] : k \in 1..Len(s)}

\* the sequences over S of length lo..hi
SeqsOf(S, lo, hi) == UNION {[1..n -> S] : n \in lo..hi}

\* the sequences over S without a repeated element, of length lo..hi
DistinctSeqsOf(S, lo, hi) ==
    {s \in SeqsOf(S, lo, hi) : \A a, b \in 1..Len(s) : s[a] = s[b] => a = b}

nil == <<>>

\* the identifier the endpoint gives the datastore it creates, and the host's
DsId == <<"d">>
HostId == <<"h">>

\* a call as the trace records it: the primitive, its argument and whether
\* it returned an error
Call(name, arg, ok) == <<name, arg, IF ok THEN "ok" ELSE "err">>

MutatingCalls ==
    {"CreateVmfsDatastore", "moveDatastoreToFolder", "extendVmfsDatastore",
     "removeDatastore", "renameObject"}

CallsNamed(name) == {k \in 1..Len(calls) : calls[k][1] = name}
FailedCalls(name) == {k \in CallsNamed(name) : calls[k][3] = "err"}
NumCalls(name) == Cardinality(CallsNamed(name))
NumMutating == Cardinality({k \in 1..Len(calls) : calls[k][1] \in MutatingCalls})

\* the arguments of the calls of a primitive, in the order of the calls
CallArgs(name) ==
    LET sel == SelectSeq(calls, LAMBDA c : c[1] = name)
    IN  [j \in 1..Len(sel) |-> sel[j][2]]

\* the arguments of the successful calls of a primitive, in order
OkCallArgs(name) ==
    LET sel == SelectSeq(calls, LAMBDA c : c[1] = name /\ c[3] = "ok")
    IN  [j \in 1..Len(sel) |-> sel[j][2]]

\* list s is the beginning of list t
IsPrefix(s, t) == Len(s) <= Len(t) /\ SubSeq(t, 1, Len(s)) = s

\* every call the handler has made succeeded
NoFailedCall == \A k \in 1..Len(calls) : calls[k][3] = "ok"

\* whether every token of error e occurs in the error text
Contains(text, e) == e # nil /\ Range(e) \subseteq Range(text)

NoDatastore ==
    [exists |-> FALSE, id |-> nil, name |-> "", folder |-> "",
     extents |-> <<>>, type |-> "", mounts |-> {}]

NoEnv == [remove |-> <<>>, fetch |-> <<>>]
\* Delete's loops before they start: the seconds the running loop has been
\* waiting, the wait before its next refresh, the state each loop's refresh
\* returned last, the removals and the wait-loop fetches made so far, the
\* loop time of the last removal, and the refreshes in a row without a result
NoLoop ==
    [clock |-> 0, backoff |-> 0, retryState |-> "", waitState |-> "",
     nRemove |-> 0, nFetch |-> 0, lastRemove |-> 0, notFound |-> 0]

----------------------------------------------------------------------------
(* Error values and formats *)

\* an error that a remote primitive returns
errHostLookup == <<"host datastore system lookup failed">>
errSpecCreate == <<"no create spec for disk">>
errCreate == <<"CreateVmfsDatastore failed">>
errMove == <<"move to folder failed">>
errSpecExtend == <<"no extend spec for disk">>
errExtend == <<"ExtendVmfsDatastore failed">>
errRemove == <<"RemoveDatastore failed">>
errRename == <<"Rename failed">>
errFind == <<"datastore lookup failed">>
errProps == <<"property fetch failed">>
errPath == <<"inventory path not under the datastore root">>
errResourceInUse == <<"ResourceInUse">>
errNotFound == <<"ManagedObjectNotFound">>

\* fmt.Sprintf: each verb ("%") of the format is replaced by the tokens of the
\* next argument, the format's own text is kept
RECURSIVE Sprintf(_, _)
Sprintf(format, args) ==
    IF format = <<>> THEN <<>>
    ELSE IF Head(format) = "%"
         THEN (IF args = <<>> THEN <<"%!s(MISSING)">> ELSE Head(args))
              \o Sprintf(Tail(format), IF args = <<>> THEN <<>> ELSE Tail(args))
         ELSE <<Head(format)>> \o Sprintf(Tail(format), args)

Errorf(format, args) == Sprintf(format, args)

DanglingHeader == "WARNING: Dangling resource!"
ManualCleanup == "You will need to remove this datastore manually before trying again."

\* a dangling-resource text for the move that leaves the removal error out
formatVmfsDatastoreCreateRollbackErrorFolderShort ==
    <<DanglingHeader,
      "There was an error moving your datastore to the desired folder", "%", "%",
      ManualCleanup>>

formatVmfsDatastoreCreateRollbackErrorFolder ==
    <<DanglingHeader,
      "There was an error moving your datastore to the desired folder", "%", "%",
      "Additionally, there was an error removing the created datastore:", "%",
      ManualCleanup>>

formatVmfsDatastoreCreateRollbackErrorUpdate ==
    <<DanglingHeader,
      "There was an error extending your datastore with disk:", "%", "%",
      "Additionally, there was an error removing the created datastore:", "%",
      ManualCleanup>>

formatVmfsDatastoreCreateRollbackErrorProperties ==
    <<DanglingHeader,
      "After creating the datastore, there was an error fetching its properties:", "%",
      "Additionally, there was an error removing the created datastore:", "%",
      ManualCleanup>>

IsDanglingError(e) == e # nil /\ e[1] = DanglingHeader

----------------------------------------------------------------------------
(* Helpers of the provider that the handlers call *)

\* pathIsEmpty: the folder resolves to the root of the inventory
pathIsEmpty(path) == path \in {"", "/"}

\* normalizeFolderPath: the cleaned path without its leading slash
normalizeFolderPath(path) ==
    CASE pathIsEmpty(path) -> ""
      [] path = "/dc-folder" -> "dc-folder"
      [] OTHER -> path

\* whether diskSpecForCreate / diskSpecForExtend can resolve the disk against
\* the host's available disks: never a disk that is already an extent
canResolveDisk(disk) == ~(remote.exists /\ disk \in Range(remote.extents))

\* the answers datastoreFromID can give for an identifier
canFind(id) == remote.exists /\ remote.id = id

\* "return e" of the running handler
Return(e) == pc' = "done" /\ ret' = e

\* removeDatastore(dss, ds): on success the datastore is gone
removeDatastore(ok) == remote' = IF ok THEN NoDatastore ELSE remote

\* a compensating removal that surfaces the primary error alone, also when
\* the removal failed
CreateRollbackPlainError(issued, ok, plain, dangling) ==
    /\ calls' = Append(issued, Call("removeDatastore", "", ok))
    /\ removeDatastore(ok)
    /\ Return(plain)

\* the compensating removal of Create: the removal's call, its effect, and
\* the plain error or (the removal failed too) the dangling-resource error
CreateRollback(issued, ok, plain, dangling) ==
    /\ calls' = Append(issued, Call("removeDatastore", "", ok))
    /\ removeDatastore(ok)
    /\ Return(IF ok THEN plain ELSE dangling)

----------------------------------------------------------------------------
(* resourceVSphereVmfsDatastoreRead, as the last step of Create and Update *)

\* The outcomes of Read's remote reads: the lookup by ID fails, the property
\* fetch fails, the inventory path cannot be split, or all succeed.  (The
\* returns on a failed d.Set cannot happen for values of the schema's types.)
ReadOutcomes ==
    {"find", "props", "path"} \cup (IF canFind(d.id) THEN {"ok"} ELSE {})

ReadError(outcome) ==
    CASE outcome = "find" -> Errorf(<<"cannot find datastore:", "%">>, <<errFind>>)
      [] outcome = "props" ->
            Errorf(<<"could not get properties for datastore:", "%">>, <<errProps>>)
      [] outcome = "path" ->
            Errorf(<<"error parsing datastore path", "%", "%">>,
                   <<<<remote.folder>>, errPath>>)
      [] OTHER -> nil

ReadCalls(outcome) ==
    CASE outcome = "find" -> <<Call("datastoreFromID", "", FALSE)>>
      [] outcome = "props" ->
            <<Call("datastoreFromID", "", TRUE), Call("datastoreProperties", "", FALSE)>>
      [] OTHER ->
            <<Call("datastoreFromID", "", TRUE), Call("datastoreProperties", "", TRUE),
              Call("SplitRelativeFolder", remote.folder, outcome # "path")>>

\* a projection that leaves the configured folder and disk list in d
ReadProjectionKeepsConfigured(outcome) == d

\* a projection that records the first extent only
ReadProjectionFirstExtent(outcome) ==
    IF outcome = "ok"
    THEN [d EXCEPT !.folder = normalizeFolderPath(remote.folder),
                   !.disks = SubSeq(remote.extents, 1, 1)]
    ELSE d

\* what Read leaves in d: the folder and the disk list of the remote datastore
ReadProjection(outcome) ==
    IF outcome = "ok"
    THEN [d EXCEPT !.folder = normalizeFolderPath(remote.folder),
                   !.disks = remote.extents]
    ELSE d

Read ==
    /\ pc = "read"
    /\ \E outcome \in ReadOutcomes :
          /\ calls' = calls \o ReadCalls(outcome)
          /\ d' = ReadProjection(outcome)
          /\ Return(ReadError(outcome))
    /\ UNCHANGED <<remote, old, config, i, env, loop>>

----------------------------------------------------------------------------
(* resourceVSphereVmfsDatastoreCreate *)

\* hostDatastoreSystemFromHostSystemID
CreateLoadHost ==
    /\ pc = "c_dss"
    /\ \E ok \in BOOLEAN :
          /\ calls' = Append(calls, Call("hostDatastoreSystemFromHostSystemID", "", ok))
          /\ IF ok THEN pc' = "c_spec" /\ ret' = ret
             ELSE Return(Errorf(<<"error loading host datastore system:", "%">>,
                                <<errHostLookup>>))
    /\ UNCHANGED <<remote, d, old, config, i, env, loop>>

\* a resolution of the create spec whose error is not looked at
CreateDiskSpecIgnoresError ==
    /\ pc = "c_spec"
    /\ \E ok \in BOOLEAN :
          /\ calls' = Append(calls, Call("diskSpecForCreate", d.disks[1], ok))
          /\ pc' = "c_create"
          /\ ret' = ret
    /\ UNCHANGED <<remote, d, old, config, i, env, loop>>

\* diskSpecForCreate for disks[0]
CreateDiskSpec ==
    /\ pc = "c_spec"
    /\ \E ok \in BOOLEAN :
          /\ calls' = Append(calls, Call("diskSpecForCreate", d.disks[1], ok))
          /\ IF ok THEN pc' = "c_create" /\ ret' = ret
             ELSE Return(errSpecCreate)
    /\ UNCHANGED <<remote, d, old, config, i, env, loop>>

\* the datastore that dss.CreateVmfsDatastore makes of the first disk
CreatedDatastore(name, disk) ==
    [exists |-> TRUE, id |-> DsId, name |-> name, folder |-> "",
     extents |-> <<disk>>, type |-> "VMFS", mounts |-> {HostId}]

CreateDatastore ==
    /\ pc = "c_create"
    /\ \E ok \in BOOLEAN :
          /\ calls' = Append(calls, Call("CreateVmfsDatastore", d.disks[1], ok))
          /\ IF ok
             THEN /\ remote' = CreatedDatastore(d.name, d.disks[1])
                  /\ pc' = "c_folder"
                  /\ ret' = ret
             ELSE /\ remote' = remote
                  /\ Return(Errorf(<<"error creating datastore with disk", "%", "%">>,
                                   <<<<d.disks[1]>>, errCreate>>))
    /\ i' = 2
    /\ UNCHANGED <<d, old, config, env, loop>>

\* "Move the datastore to the correct folder first, if specified."
CreateMoveToFolder ==
    /\ pc = "c_folder"
    /\ IF pathIsEmpty(d.folder)
       THEN /\ pc' = "c_extend_spec"
            /\ UNCHANGED <<remote, ret, calls>>
       ELSE \E ok \in BOOLEAN :
              IF ok
              THEN /\ calls' = Append(calls, Call("moveDatastoreToFolder", d.folder, TRUE))
                   /\ remote' = [remote EXCEPT !.folder = normalizeFolderPath(d.folder)]
                   /\ pc' = "c_extend_spec"
                   /\ ret' = ret
              ELSE \E remOk \in BOOLEAN :
                   CreateRollback(
                        Append(calls, Call("moveDatastoreToFolder", d.folder, FALSE)),
                        remOk,
                        Errorf(<<"could not move datastore to folder", "%", "%">>,
                               <<<<d.folder>>, errMove>>),
                        Errorf(formatVmfsDatastoreCreateRollbackErrorFolder,
                               <<<<d.folder>>, errMove, errRemove>>))
    /\ UNCHANGED <<d, old, config, i, env, loop>>

\* "Now add any remaining disks.": diskSpecForExtend for disks[i]
CreateExtendSpec ==
    /\ pc = "c_extend_spec"
    /\ IF i > Len(d.disks)
       THEN /\ pc' = "c_setid"
            /\ UNCHANGED <<remote, ret, calls>>
       ELSE \E ok \in {b \in BOOLEAN : b => canResolveDisk(d.disks[i])} :
              IF ok
              THEN /\ calls' = Append(calls, Call("diskSpecForExtend", d.disks[i], TRUE))
                   /\ pc' = "c_extend"
                   /\ UNCHANGED <<remote, ret>>
              ELSE \E remOk \in BOOLEAN :
                   CreateRollback(
                        Append(calls, Call("diskSpecForExtend", d.disks[i], FALSE)),
                        remOk,
                        Errorf(<<"error fetching datastore extend spec for disk", "%", "%">>,
                               <<<<d.disks[i]>>, errSpecExtend>>),
                        Errorf(formatVmfsDatastoreCreateRollbackErrorUpdate,
                               <<<<d.disks[i]>>, errSpecExtend, errRemove>>))
    /\ UNCHANGED <<d, old, config, i, env, loop>>

\* extendVmfsDatastore with the spec of disks[i]
CreateExtend ==
    /\ pc = "c_extend"
    /\ \E ok \in BOOLEAN :
          IF ok
          THEN /\ calls' = Append(calls, Call("extendVmfsDatastore", d.disks[i], TRUE))
               /\ remote' = [remote EXCEPT !.extents = Append(@, d.disks[i])]
               /\ pc' = "c_extend_spec"
               /\ i' = i + 1
               /\ ret' = ret
          ELSE \E remOk \in BOOLEAN :
               /\ CreateRollback(
                    Append(calls, Call("extendVmfsDatastore", d.disks[i], FALSE)),
                    remOk,
                    Errorf(<<"error extending datastore with disk", "%", "%">>,
                           <<<<d.disks[i]>>, errExtend>>),
                    Errorf(formatVmfsDatastoreCreateRollbackErrorUpdate,
                           <<<<d.disks[i]>>, errExtend, errRemove>>))
               /\ i' = i
    /\ UNCHANGED <<d, old, config, env, loop>>

\* a Create that goes on to its Read without d.SetId
CreateSetIdSkipped ==
    /\ pc = "c_setid"
    /\ pc' = "read"
    /\ UNCHANGED <<remote, d, old, config, i, ret, calls, env, loop>>

\* d.SetId(ds.Reference().Value), then "return Read(d, meta)"
CreateSetId ==
    /\ pc = "c_setid"
    /\ d' = [d EXCEPT !.id = remote.id]
    /\ pc' = "read"
    /\ UNCHANGED <<remote, old, config, i, ret, calls, env, loop>>

\* a configuration of the resource, as the schema admits it
Configs ==
    [id : {nil}, host_system_id : {HostId}, name : Names, folder : Folders,
     disks : SeqsOf(Disks, 1, MaxDisks)]

NoState == [name |-> "", folder |-> "", disks |-> <<>>]

InitCreate ==
    /\ remote = NoDatastore
    /\ d \in Configs
    /\ old = NoState
    /\ config = d
    /\ pc = "c_dss"
    /\ i = 1
    /\ ret = nil
    /\ calls = <<>>
    /\ env = NoEnv
    /\ loop = NoLoop

NextCreate ==
    \/ CreateLoadHost
    \/ CreateDiskSpec
    \/ CreateDatastore
    \/ CreateMoveToFolder
    \/ CreateExtendSpec
    \/ CreateExtend
    \/ CreateSetId
    \/ Read

SpecCreate == InitCreate /\ [][NextCreate]_vars

----------------------------------------------------------------------------
(* Claims about Create *)

Returned == pc = "done"

\* the calls of Create that extend the datastore with a disk after the first
ExtensionCalls == CallsNamed("diskSpecForExtend") \cup CallsNamed("extendVmfsDatastore")
FailedExtensions == {k \in ExtensionCalls : calls[k][3] = "err"}

\* the error of the extension step that failed
ExtensionError ==
    IF FailedCalls("diskSpecForExtend") # {} THEN errSpecExtend ELSE errExtend

RemovalSucceeded == Call("removeDatastore", "", TRUE) \in Range(calls)

\* outcome (a): the compensating removal succeeded, nothing is left remotely
OutcomeRolledBack == RemovalSucceeded /\ ~remote.exists

\* outcome (b): the dangling-resource error, with both errors in its text
OutcomeDangling ==
    /\ IsDanglingError(ret)
    /\ Contains(ret, ExtensionError)
    /\ Contains(ret, errRemove)

\* C1: when Create returns after the extension with a disk after the first
\* failed (its extend spec or its extend call), then either the compensating
\* removal succeeded and no datastore exists remotely, or the returned error
\* is the dangling-resource error whose text holds the extension error and
\* the removal error; never both, never neither.
C1_CreationAtomicity ==
    (Returned /\ FailedExtensions # {}) =>
        /\ Len(config.disks) >= 2
        /\ OutcomeRolledBack \/ OutcomeDangling
        /\ ~(OutcomeRolledBack /\ OutcomeDangling)

\* the third disk's extend call failed after the second disk was added, and
\* the removal failed too
C1_Witness ==
    /\ Returned
    /\ i = 3
    /\ FailedCalls("extendVmfsDatastore") # {}
    /\ Call("removeDatastore", "", FALSE) \in Range(calls)
    /\ remote.exists
    /\ Len(remote.extents) = 2
    /\ OutcomeDangling

CreateSucceededRemotely == Call("CreateVmfsDatastore", config.disks[1], TRUE) \in Range(calls)

\* C2: when Create returns an error after CreateVmfsDatastore succeeded, it
\* has issued exactly one removeDatastore call.
C2_OneRemovalOnEveryErrorPath ==
    (Returned /\ ret # nil /\ CreateSucceededRemotely) =>
        NumCalls("removeDatastore") = 1

\* C12: after a Create with disk list D and a non-empty folder F in which
\* every remote step succeeded, the state the final Read projected has a disk
\* list with the same set of identifiers as D, the normalized form of F as
\* its folder, and the identifier the remote create call assigned.
C12_RoundTripRead ==
    (Returned /\ ~pathIsEmpty(config.folder) /\ NoFailedCall) =>
        /\ ret = nil
        /\ Range(d.disks) = Range(config.disks)
        /\ d.folder = normalizeFolderPath(config.folder)
        /\ d.id = CreatedDatastore(config.name, config.disks[1]).id
        /\ d.id = remote.id
        /\ NumCalls("moveDatastoreToFolder") = 1
        /\ NumCalls("SplitRelativeFolder") = 1

\* two disks were created in folder "/dc-folder" and read back
C12_Witness ==
    /\ Returned
    /\ ret = nil
    /\ config.folder = "/dc-folder"
    /\ config.disks = <<"disk-a", "disk-b">>
    /\ d.disks = <<"disk-a", "disk-b">>
    /\ d.folder = "dc-folder"
    /\ d.id = DsId

MoveFailed == FailedCalls("moveDatastoreToFolder") # {}

\* C13: in a Create with a non-empty folder whose move to the folder failed,
\* no extend spec is resolved and no extend call is made for the remaining
\* disks, exactly one removal of the created datastore is attempted, and the
\* returned error is the plain move error when the removal succeeded, or the
\* dangling-resource error with the move error, the removal error and the
\* manual-cleanup instruction when the removal failed.
C13_MoveFailureRollsBack ==
    MoveFailed =>
        /\ ~pathIsEmpty(config.folder)
        /\ Returned
        /\ NumCalls("diskSpecForExtend") = 0
        /\ NumCalls("extendVmfsDatastore") = 0
        /\ NumCalls("removeDatastore") = 1
        /\ Contains(ret, errMove)
        /\ Contains(ret, <<config.folder>>)
        /\ IF RemovalSucceeded
           THEN /\ ~IsDanglingError(ret)
                /\ ~Contains(ret, errRemove)
                /\ ~remote.exists
           ELSE /\ IsDanglingError(ret)
                /\ Contains(ret, errRemove)
                /\ ManualCleanup \in Range(ret)
                /\ remote.exists

\* the move of a three-disk datastore failed and so did its removal
C13_Witness ==
    /\ Returned
    /\ MoveFailed
    /\ Len(config.disks) = 3
    /\ Call("removeDatastore", "", FALSE) \in Range(calls)
    /\ IsDanglingError(ret)
    /\ remote.exists

\* step 1 of Create failed: the host lookup, the create spec or the create call
Step1Failed ==
    \/ FailedCalls("hostDatastoreSystemFromHostSystemID") # {}
    \/ FailedCalls("diskSpecForCreate") # {}
    \/ FailedCalls("CreateVmfsDatastore") # {}

\* the error of the primitive of step 1 that failed
Step1Error ==
    IF FailedCalls("hostDatastoreSystemFromHostSystemID") # {} THEN errHostLookup
    ELSE IF FailedCalls("diskSpecForCreate") # {} THEN errSpecCreate
    ELSE errCreate

\* C14: a failure of step 1 of Create (the host datastore-system lookup, the
\* create spec of the first disk, or the remote create call) is clean: Create
\* returns that error, has issued no move, extend-spec, extend or remove
\* call, no datastore exists remotely, and the resource identifier is unset.
C14_CleanStep1Failure ==
    Step1Failed =>
        /\ Returned
        /\ Contains(ret, Step1Error)
        /\ ~IsDanglingError(ret)
        /\ NumCalls("moveDatastoreToFolder") = 0
        /\ NumCalls("diskSpecForExtend") = 0
        /\ NumCalls("extendVmfsDatastore") = 0
        /\ NumCalls("removeDatastore") = 0
        /\ NumCalls("datastoreFromID") = 0
        /\ ~remote.exists
        /\ d.id = nil

\* the create call of a three-disk configuration with a folder failed
C14_Witness ==
    /\ Returned
    /\ FailedCalls("CreateVmfsDatastore") # {}
    /\ Len(config.disks) = 3
    /\ ~pathIsEmpty(config.folder)
    /\ Contains(ret, errCreate)
    /\ d.id = nil

\* a provisioning step failed: the create call, the move, an extend spec or
\* an extend call
ProvisioningFailed ==
    \/ FailedCalls("CreateVmfsDatastore") # {}
    \/ MoveFailed
    \/ FailedExtensions # {}

\* every provisioning step was made and succeeded: the create call for the
\* first disk, the move when a folder is configured, and the extension with
\* every later disk in order
AllProvisioned ==
    /\ OkCallArgs("CreateVmfsDatastore") = <<config.disks[1]>>
    /\ OkCallArgs("moveDatastoreToFolder") =
          (IF pathIsEmpty(config.folder) THEN <<>> ELSE <<config.folder>>)
    /\ OkCallArgs("diskSpecForExtend") = Tail(config.disks)
    /\ OkCallArgs("extendVmfsDatastore") = Tail(config.disks)
    /\ ~ProvisioningFailed

\* C19: Create sets the resource identifier only after the create call, the
\* move (if any) and every extension succeeded: when it returns after a
\* failed create, move, extend spec or extend the identifier is unset; when it
\* returns, the identifier is set, to the identifier of the created
\* datastore, exactly when all provisioning steps succeeded, also when the
\* final read then failed and Create returns an error with the datastore
\* still there.
C19_IdSetAfterProvisioning ==
    /\ d.id # nil => (AllProvisioned /\ d.id = remote.id /\ d.id = DsId)
    /\ (Returned /\ ProvisioningFailed) => (d.id = nil /\ ret # nil)
    /\ Returned => (d.id # nil <=> AllProvisioned)
    /\ (Returned /\ AllProvisioned /\ ret # nil) =>
          /\ remote.exists
          /\ NumCalls("removeDatastore") = 0
          /\ FailedCalls("datastoreFromID") \cup FailedCalls("datastoreProperties")
                \cup FailedCalls("SplitRelativeFolder") # {}

\* two disks were provisioned, the identifier was set and the read failed
C19_Witness ==
    /\ Returned
    /\ ret # nil
    /\ Len(config.disks) = 2
    /\ AllProvisioned
    /\ d.id = DsId
    /\ remote.exists
    /\ FailedCalls("datastoreProperties") # {}

----------------------------------------------------------------------------
(* resourceVSphereVmfsDatastoreUpdate *)

\* a change test that reports a change for every key
HasChangeAlways(key) == TRUE

\* d.HasChange(key)
HasChange(key) == old[key] # d[key]

\* hostDatastoreSystemFromHostSystemID
UpdateLoadHost ==
    /\ pc = "u_dss"
    /\ \E ok \in BOOLEAN :
          /\ calls' = Append(calls, Call("hostDatastoreSystemFromHostSystemID", "", ok))
          /\ IF ok THEN pc' = "u_find" /\ ret' = ret
             ELSE Return(Errorf(<<"error loading host datastore system:", "%">>,
                                <<errHostLookup>>))
    /\ UNCHANGED <<remote, d, old, config, i, env, loop>>

\* datastoreFromID(client, d.Id())
UpdateFindDatastore ==
    /\ pc = "u_find"
    /\ \E ok \in {b \in BOOLEAN : b => canFind(d.id)} :
          /\ calls' = Append(calls, Call("datastoreFromID", "", ok))
          /\ IF ok THEN pc' = "u_rename" /\ ret' = ret
             ELSE Return(Errorf(<<"cannot find datastore:", "%">>, <<errFind>>))
    /\ UNCHANGED <<remote, d, old, config, i, env, loop>>

\* a rename whose error is not looked at
UpdateRenameIgnoresError ==
    /\ pc = "u_rename"
    /\ IF ~HasChange("name")
       THEN UNCHANGED <<remote, calls>>
       ELSE \E ok \in BOOLEAN :
              /\ calls' = Append(calls, Call("renameObject", d.name, ok))
              /\ remote' = IF ok THEN [remote EXCEPT !.name = d.name] ELSE remote
    /\ pc' = "u_folder"
    /\ UNCHANGED <<d, old, config, i, ret, env, loop>>

\* "Rename this datastore if our name has drifted."
UpdateRename ==
    /\ pc = "u_rename"
    /\ IF ~HasChange("name")
       THEN /\ pc' = "u_folder"
            /\ UNCHANGED <<remote, ret, calls>>
       ELSE \E ok \in BOOLEAN :
              /\ calls' = Append(calls, Call("renameObject", d.name, ok))
              /\ IF ok
                 THEN /\ remote' = [remote EXCEPT !.name = d.name]
                      /\ pc' = "u_folder"
                      /\ ret' = ret
                 ELSE /\ remote' = remote
                      /\ Return(errRename)
    /\ UNCHANGED <<d, old, config, i, env, loop>>

\* "Update folder if necessary"
UpdateMoveToFolder ==
    /\ pc = "u_folder"
    /\ IF ~HasChange("folder")
       THEN /\ pc' = "u_veto"
            /\ UNCHANGED <<remote, ret, calls>>
       ELSE \E ok \in BOOLEAN :
              /\ calls' = Append(calls, Call("moveDatastoreToFolder", d.folder, ok))
              /\ IF ok
                 THEN /\ remote' = [remote EXCEPT !.folder = normalizeFolderPath(d.folder)]
                      /\ pc' = "u_veto"
                      /\ ret' = ret
                 ELSE /\ remote' = remote
                      /\ Return(Errorf(<<"Could not move datastore to folder", "%", "%">>,
                                       <<<<d.folder>>, errMove>>))
    /\ UNCHANGED <<d, old, config, i, env, loop>>

\* a veto that only compares the lengths of the two lists
FirstRemovedByLength(oldDisks, newDisks) ==
    IF Len(newDisks) < Len(oldDisks) THEN 1 ELSE 0

\* the position in the old list of the first disk the new list does not hold,
\* 0 when every old disk is in the new list
FirstRemoved(oldDisks, newDisks) ==
    LET gone == {k \in 1..Len(oldDisks) :
                    ~\E j \in 1..Len(newDisks) : oldDisks[k] = newDisks[j]}
    IN  IF gone = {} THEN 0 ELSE CHOOSE k \in gone : \A m \in gone : k <= m

PolicyViolation == "found in state but not config (removal of disks is not supported)"

\* "Veto this update if it means a disk was removed."
UpdateVetoRemoval ==
    /\ pc = "u_veto"
    /\ LET k == FirstRemoved(old.disks, d.disks)
       IN  IF k # 0
           THEN Return(Errorf(<<"disk", "%", PolicyViolation>>, <<<<old.disks[k]>>>>))
           ELSE pc' = "u_add_spec" /\ ret' = ret
    /\ i' = 1
    /\ UNCHANGED <<remote, d, old, config, calls, env, loop>>

\* a loop that also finds a disk it has met earlier in the new list
FoundInOldOrEarlier(v1) ==
    \/ \E j \in 1..Len(old.disks) : v1 = old.disks[j]
    \/ \E j \in 1..(i - 1) : v1 = d.disks[j]

\* whether the loop over the new list finds disk v1 in the old list
FoundInOld(v1) == \E j \in 1..Len(old.disks) : v1 = old.disks[j]

\* "add any new disks that have been added": diskSpecForExtend for new[i]
UpdateExtendSpec ==
    /\ pc = "u_add_spec"
    /\ IF i > Len(d.disks)
       THEN /\ pc' = "read"
            /\ UNCHANGED <<i, ret, calls>>
       ELSE IF FoundInOld(d.disks[i])
       THEN /\ i' = i + 1
            /\ UNCHANGED <<pc, ret, calls>>
       ELSE \E ok \in {b \in BOOLEAN : b => canResolveDisk(d.disks[i])} :
              /\ calls' = Append(calls, Call("diskSpecForExtend", d.disks[i], ok))
              /\ i' = i
              /\ IF ok THEN pc' = "u_add" /\ ret' = ret
                 ELSE Return(errSpecExtend)
    /\ UNCHANGED <<remote, d, old, config, env, loop>>

\* an extension that goes on to the next disk when the extend call fails
UpdateExtendSkipsFailed ==
    /\ pc = "u_add"
    /\ \E ok \in BOOLEAN :
          /\ calls' = Append(calls, Call("extendVmfsDatastore", d.disks[i], ok))
          /\ remote' = IF ok THEN [remote EXCEPT !.extents = Append(@, d.disks[i])]
                        ELSE remote
    /\ pc' = "u_add_spec"
    /\ i' = i + 1
    /\ UNCHANGED <<d, old, config, ret, env, loop>>

\* extendVmfsDatastore with the spec of new[i]
UpdateExtend ==
    /\ pc = "u_add"
    /\ \E ok \in BOOLEAN :
          /\ calls' = Append(calls, Call("extendVmfsDatastore", d.disks[i], ok))
          /\ IF ok
             THEN /\ remote' = [remote EXCEPT !.extents = Append(@, d.disks[i])]
                  /\ pc' = "u_add_spec"
                  /\ i' = i + 1
                  /\ ret' = ret
             ELSE /\ remote' = remote
                  /\ i' = i
                  /\ Return(errExtend)
    /\ UNCHANGED <<d, old, config, env, loop>>

\* the states a Read can have recorded for an existing datastore
States ==
    [name : Names, folder : {normalizeFolderPath(f) : f \in Folders},
     disks : DistinctSeqsOf(Disks, 1, MaxDisks)]

\* the datastore a recorded state was read from
DatastoreOf(st) ==
    [exists |-> TRUE, id |-> DsId, name |-> st.name, folder |-> st.folder,
     extents |-> st.disks, type |-> "VMFS", mounts |-> {HostId}]

\* the configurations an Update of the datastore can be called with
UpdateConfigs ==
    [id : {DsId}, host_system_id : {HostId}, name : Names,
     folder : {normalizeFolderPath(f) : f \in Folders},
     disks : SeqsOf(Disks, 1, MaxDisks)]

InitUpdate ==
    /\ old \in States
    /\ remote = DatastoreOf(old)
    /\ config \in UpdateConfigs
    /\ d = config
    /\ pc = "u_dss"
    /\ i = 1
    /\ ret = nil
    /\ calls = <<>>
    /\ env = NoEnv
    /\ loop = NoLoop

NextUpdate ==
    \/ UpdateLoadHost
    \/ UpdateFindDatastore
    \/ UpdateRename
    \/ UpdateMoveToFolder
    \/ UpdateVetoRemoval
    \/ UpdateExtendSpec
    \/ UpdateExtend
    \/ Read

SpecUpdate == InitUpdate /\ [][NextUpdate]_vars

\* the state d holds: the attributes the next Update has as its old side
StateOf(data) == [name |-> data.name, folder |-> data.folder, disks |-> data.disks]

\* the state a refresh (a Read outside an Update) records of the datastore
ObservedState ==
    [name |-> remote.name, folder |-> normalizeFolderPath(remote.folder),
     disks |-> remote.extents]

\* Between two Updates the state is saved: what the Read of a successful
\* Update recorded; after a failed Update the state from before that Update,
\* or what a refresh records.  The handler's data is gone with its call.
UpdateSaveState ==
    /\ pc = "done"
    /\ \E st \in (IF ret = nil THEN {StateOf(d)} ELSE {old, ObservedState}) :
          /\ old' = st
          /\ config' = [id |-> DsId, host_system_id |-> HostId, name |-> st.name,
                        folder |-> st.folder, disks |-> st.disks]
    /\ d' = config'
    /\ pc' = "saved"
    /\ i' = 1
    /\ ret' = nil
    /\ calls' = <<>>
    /\ UNCHANGED <<remote, env, loop>>

\* The next Update of the same datastore, with any configuration.
UpdateAgain ==
    /\ pc = "saved"
    /\ config' \in UpdateConfigs
    /\ d' = config'
    /\ pc' = "u_dss"
    /\ UNCHANGED <<remote, old, i, ret, calls, env, loop>>

\* Updates one after the other, of a datastore first observed with one disk
InitUpdates == InitUpdate /\ Len(old.disks) = 1 /\ old.name = "ds-one" /\ old.folder = ""

NextUpdates ==
    \/ NextUpdate
    \/ UpdateSaveState
    \/ UpdateAgain

SpecUpdates == InitUpdates /\ [][NextUpdates]_vars

----------------------------------------------------------------------------
(* Claims about Update *)

\* the desired disk list omits a disk of the previously observed list
Shrinks == \E v \in Range(old.disks) : v \notin Range(config.disks)

\* the desired disk list also holds a disk the observed list does not
Grows == \E v \in Range(config.disks) : v \notin Range(old.disks)

IsPolicyViolation(e) == PolicyViolation \in Range(e)

NoExtentCalls ==
    /\ NumCalls("extendVmfsDatastore") = 0
    /\ NumCalls("removeDatastore") = 0

\* C3, as stated: every Update whose desired disk list omits a previously
\* observed disk fails with the policy-violation error, with no extend and no
\* remove call.
C3_ShrinkRejectedAsStated ==
    Shrinks =>
        /\ NoExtentCalls
        /\ Returned => IsPolicyViolation(ret)

\* C3, amended: every Update whose desired disk list omits a previously
\* observed disk makes no extend-spec, extend or remove call and returns an
\* error; the error is the policy-violation error, naming the first omitted
\* disk, whenever the host lookup, the datastore lookup and the rename and
\* folder move the Update makes before the check all succeeded.
C3_ShrinkRejected ==
    Shrinks =>
        /\ NoExtentCalls
        /\ NumCalls("diskSpecForExtend") = 0
        /\ Returned => ret # nil
        /\ (Returned /\ NoFailedCall) =>
              /\ IsPolicyViolation(ret)
              /\ \E v \in Range(old.disks) \ Range(config.disks) : Contains(ret, <<v>>)

\* a shrinking Update that also adds a disk was vetoed
C3_Witness ==
    /\ Returned
    /\ Shrinks
    /\ Grows
    /\ NoFailedCall
    /\ IsPolicyViolation(ret)

\* C4: a policy violation never touches the remote system: an Update whose
\* desired disk list omits a previously observed disk and which returns the
\* policy violation has made no mutating remote call (no rename, move, extend
\* or remove) and has left the datastore as it was, also when the name or the
\* folder changed in the same Update.
C4_PolicyViolationTouchesNothing ==
    (Shrinks /\ Returned /\ IsPolicyViolation(ret)) =>
        /\ NumMutating = 0
        /\ remote = DatastoreOf(old)

\* the desired state equals the observed state
Unchanged ==
    /\ config.name = old.name
    /\ config.folder = old.folder
    /\ config.disks = old.disks

\* C5: an Update whose desired state equals the observed state makes no
\* mutating remote call, and returns nil when its lookups and its final read
\* succeeded.
C5_DiffIdempotence ==
    Unchanged =>
        /\ NumMutating = 0
        /\ NumCalls("diskSpecForExtend") = 0
        /\ (Returned /\ NoFailedCall) =>
              /\ ret = nil
              /\ NumCalls("SplitRelativeFolder") = 1
              /\ d.disks = old.disks

\* an Update of an unchanged two-disk datastore ran to its end
C5_Witness ==
    /\ Returned
    /\ Unchanged
    /\ Len(old.disks) >= 2
    /\ NoFailedCall
    /\ ret = nil

RenameFailed == FailedCalls("renameObject") # {}

\* the Update made no call for an extent and did not run its final read
NoExtentWorkNoRead ==
    /\ NumCalls("diskSpecForExtend") = 0
    /\ NumCalls("extendVmfsDatastore") = 0
    /\ NumCalls("datastoreFromID") = 1
    /\ NumCalls("datastoreProperties") = 0
    /\ NumCalls("SplitRelativeFolder") = 0
    /\ d = config

\* C15: in Update a failed rename aborts the update before any folder move
\* and before any extent work (no move call, no extend spec, no extend call,
\* no final read), and a failed folder move aborts it before any extent work;
\* in both cases Update returns the error.
C15_RenameOrMoveFailureAborts ==
    /\ RenameFailed =>
          /\ Returned
          /\ ret = errRename
          /\ NumCalls("moveDatastoreToFolder") = 0
          /\ NoExtentWorkNoRead
          /\ remote = DatastoreOf(old)
    /\ MoveFailed =>
          /\ Returned
          /\ Contains(ret, errMove)
          /\ NoExtentWorkNoRead
          /\ remote.extents = old.disks

\* the rename failed in an Update that also changes the folder and adds a disk
C15_Witness ==
    /\ Returned
    /\ RenameFailed
    /\ config.folder # old.folder
    /\ Grows
    /\ ~Shrinks
    /\ ret = errRename

\* the identifiers of the desired list that the observed list does not hold,
\* in desired-list order
NewDisks == SelectSeq(config.disks, LAMBDA v : v \notin Range(old.disks))

AdditionFailed ==
    FailedCalls("diskSpecForExtend") # {} \/ FailedCalls("extendVmfsDatastore") # {}

\* C16: when the extend spec or the extend call fails for the k-th identifier
\* that is in the desired list and not in the observed list, Update returns
\* that error; the k-1 earlier new identifiers were extended in desired-list
\* order and are extents of the datastore after the observed ones, no later
\* new identifier was attempted, no remove call was issued and the final read
\* was not run.
C16_AdditionsStopAtFirstFailure ==
    AdditionFailed =>
        LET k == NumCalls("diskSpecForExtend")
        IN  /\ Returned
            /\ calls[Len(calls)][3] = "err"
            /\ Cardinality(FailedCalls("diskSpecForExtend")
                            \cup FailedCalls("extendVmfsDatastore")) = 1
            /\ ret = (IF FailedCalls("diskSpecForExtend") # {}
                      THEN errSpecExtend ELSE errExtend)
            /\ k \in 1..Len(NewDisks)
            /\ CallArgs("diskSpecForExtend") = SubSeq(NewDisks, 1, k)
            /\ OkCallArgs("extendVmfsDatastore") = SubSeq(NewDisks, 1, k - 1)
            /\ calls[Len(calls)][2] = NewDisks[k]
            /\ remote.extents = old.disks \o SubSeq(NewDisks, 1, k - 1)
            /\ NumCalls("removeDatastore") = 0
            /\ NumCalls("datastoreFromID") = 1
            /\ NumCalls("datastoreProperties") = 0
            /\ d = config

\* the extend call of the second new disk failed after the first was added
C16_Witness ==
    /\ Returned
    /\ Len(NewDisks) = 2
    /\ NumCalls("diskSpecForExtend") = 2
    /\ FailedCalls("extendVmfsDatastore") # {}
    /\ remote.extents = old.disks \o <<NewDisks[1]>>
    /\ NewDisks[1] # NewDisks[2]
    /\ ret = errExtend

\* the calls of a primitive that were made with disk v
CallsFor(name, v) == {k \in CallsNamed(name) : calls[k][2] = v}

\* the desired list holds a new identifier more than once
RepeatsNewDisk ==
    \E a, b \in 1..Len(NewDisks) : a # b /\ NewDisks[a] = NewDisks[b]

\* a successful Update made exactly one extend call for each distinct new
\* identifier and none for an observed one
OneExtendPerNewDisk ==
    (Returned /\ ret = nil) =>
        /\ \A v \in Range(NewDisks) :
              Cardinality(CallsFor("extendVmfsDatastore", v)) = 1
        /\ \A v \in Range(old.disks) :
              /\ CallsFor("extendVmfsDatastore", v) = {}
              /\ CallsFor("diskSpecForExtend", v) = {}

C11_Step ==
    /\ remote'.exists
    /\ Range(remote.extents) \subseteq Range(remote'.extents)
    /\ IsPrefix(remote.extents, remote'.extents)
    /\ (pc = "read" /\ pc' = "done" /\ ret' = nil) =>
          Range(old.disks) \subseteq Range(d'.disks)

\* C11: over any sequence of Updates of an existing datastore, successful or
\* failed, the remote extent set only grows (so after each Update it is a
\* superset of the set before it), the disk list recorded by a successful
\* Update is a superset of the previously recorded list, and Update never
\* issues a remove call and never drops an extent.
C11_GrowsOnlyExtents ==
    /\ [][C11_Step]_vars
    /\ [](NumCalls("removeDatastore") = 0)

\* an Update succeeded that added one disk after an earlier, failed Update
\* had already added another
C11_Witness ==
    /\ Returned
    /\ ret = nil
    /\ NumCalls("extendVmfsDatastore") = 1
    /\ Len(remote.extents) = Len(old.disks) + 2
    /\ Range(old.disks) \subseteq Range(d.disks)
    /\ d.disks = remote.extents

----------------------------------------------------------------------------
(* resourceVSphereVmfsDatastoreDelete *)

retryDeletePending == "retryDeletePending"
retryDeleteCompleted == "retryDeleteCompleted"
retryDeleteError == "retryDeleteError"

waitForDeletePending == "waitForDeletePending"
waitForDeleteCompleted == "waitForDeleteCompleted"
waitForDeleteError == "waitForDeleteError"

\* the provider's timeout for one remote operation, in seconds
defaultAPITimeout == 300

isResourceInUseError(e) == e = errResourceInUse
isManagedObjectNotFoundError(e) == e = errNotFound

\* the n-th answer of a primitive that follows a script and then keeps
\* giving the script's last answer
Answer(script, n) == script[IF n < Len(script) THEN n ELSE Len(script)]

\* the error removeDatastore returns for an answer of the endpoint
RemoveError(answer) ==
    CASE answer = "ok" -> nil
      [] answer = "inuse" -> errResourceInUse
      [] OTHER -> errRemove

\* the error datastoreFromID returns for an answer of the endpoint
FetchError(answer) ==
    CASE answer = "found" -> nil
      [] answer = "notfound" -> errNotFound
      [] OTHER -> errFind

\* what a refresh function returns: (result, state, error)
Refreshed(state, e) == [result |-> <<"struct{}{}">>, state |-> state, err |-> e]

\* a retry function that retries after every error
deleteRetryFuncRetriesAll(removeErr) ==
    IF removeErr # nil
    THEN Refreshed(retryDeletePending, nil)
    ELSE Refreshed(retryDeleteCompleted, nil)

\* a retry function that reports a conflict as completion
deleteRetryFuncConflictDone(removeErr) ==
    IF removeErr # nil /\ ~isResourceInUseError(removeErr)
    THEN Refreshed(retryDeleteError, removeErr)
    ELSE Refreshed(retryDeleteCompleted, nil)

\* deleteRetryFunc, given the error of its removeDatastore call
deleteRetryFunc(removeErr) ==
    IF removeErr # nil
    THEN IF isResourceInUseError(removeErr)
         THEN Refreshed(retryDeletePending, nil)
         ELSE Refreshed(retryDeleteError, removeErr)
    ELSE Refreshed(retryDeleteCompleted, nil)

\* a wait function that returns no result and no state when the datastore
\* is not found
waitForDeleteFuncNilOnNotFound(fetchErr) ==
    IF fetchErr # nil
    THEN IF isManagedObjectNotFoundError(fetchErr)
         THEN [result |-> nil, state |-> "", err |-> nil]
         ELSE Refreshed(waitForDeleteError, fetchErr)
    ELSE Refreshed(waitForDeletePending, nil)

\* waitForDeleteFunc, given the error of its datastoreFromID call
waitForDeleteFunc(fetchErr) ==
    IF fetchErr # nil
    THEN IF isManagedObjectNotFoundError(fetchErr)
         THEN Refreshed(waitForDeleteCompleted, nil)
         ELSE Refreshed(waitForDeleteError, fetchErr)
    ELSE Refreshed(waitForDeletePending, nil)

\* the two resource.StateChangeConf values, times in seconds
deleteRetry ==
    [Pending |-> {retryDeletePending}, Target |-> {retryDeleteCompleted},
     Timeout |-> 30, MinTimeout |-> 2, Delay |-> 2, NotFoundChecks |-> 20]

waitForDelete ==
    [Pending |-> {waitForDeletePending}, Target |-> {waitForDeleteCompleted},
     Timeout |-> defaultAPITimeout, MinTimeout |-> 2, Delay |-> 1,
     NotFoundChecks |-> 35]

\* StateChangeConf.WaitForState: the loop time of the next refresh, after the
\* initial delay for the first and after the previous call and the wait
\* for the later ones
NextRefreshTime(conf, refreshes, clock, backoff, callTime) ==
    IF refreshes = 0 THEN conf.Delay ELSE clock + callTime + backoff

\* StateChangeConf.WaitForState: the wait after a refresh, doubled each time
\* between the configured minimum and ten seconds
NextBackoff(conf, backoff) ==
    IF 2 * backoff < conf.MinTimeout THEN conf.MinTimeout
    ELSE IF 2 * backoff > 10 THEN 10
    ELSE 2 * backoff

\* StateChangeConf.WaitForState: what one refresh means for the loop
Verdict(conf, r) ==
    CASE r.err # nil -> "error"
      [] r.result = nil -> "notfound"
      [] r.state \in conf.Target -> "done"
      [] r.state \in conf.Pending -> "pending"
      [] OTHER -> "unexpected"

errTimeout(conf, lastState) ==
    <<"timeout while waiting for state to become">> \o
    <<CHOOSE t \in conf.Target : TRUE, "last state:", lastState>>

errUnexpectedState(conf, state) ==
    <<"unexpected state", state, "wanted target">> \o <<CHOOSE t \in conf.Target : TRUE>>

errNotFoundChecks == <<"couldn't find resource">>

\* StateChangeConf.WaitForState: the loop refreshes again after a pending
\* state, and after a refresh without a result while no more than
\* NotFoundChecks of them came in a row
LoopContinues(conf, verdict, notFound) ==
    \/ verdict = "pending"
    \/ verdict = "notfound" /\ notFound + 1 <= conf.NotFoundChecks

\* the error WaitForState returns when the loop ends without its target
LoopError(conf, verdict, r) ==
    CASE verdict = "error" -> r.err
      [] verdict = "unexpected" -> errUnexpectedState(conf, r.state)
      [] verdict = "notfound" -> errNotFoundChecks
      [] OTHER -> nil

\* a Delete that goes on to the wait loop whatever the retry loop returned
AfterRetryIgnoresError(e) == pc' = "x_wait" /\ ret' = ret

\* what Delete does with the error of deleteRetry.WaitForState()
AfterRetry(e) ==
    IF e # nil
    THEN Return(Errorf(<<"could not delete datastore:", "%">>, <<e>>))
    ELSE pc' = "x_wait" /\ ret' = ret

\* what Delete does with the error of waitForDelete.WaitForState()
AfterWait(e) ==
    IF e # nil
    THEN Return(Errorf(<<"error waiting for datastore to delete:", "%">>, <<e>>))
    ELSE Return(nil)

\* hostDatastoreSystemFromHostSystemID
DeleteLoadHost ==
    /\ pc = "x_dss"
    /\ \E ok \in BOOLEAN :
          /\ calls' = Append(calls, Call("hostDatastoreSystemFromHostSystemID", "", ok))
          /\ IF ok THEN pc' = "x_find" /\ ret' = ret
             ELSE Return(Errorf(<<"error loading host datastore system:", "%">>,
                                <<errHostLookup>>))
    /\ UNCHANGED <<remote, d, old, config, i, env, loop>>

\* datastoreFromID(client, d.Id())
DeleteFindDatastore ==
    /\ pc = "x_find"
    /\ \E ok \in {b \in BOOLEAN : b => canFind(d.id)} :
          /\ calls' = Append(calls, Call("datastoreFromID", "", ok))
          /\ IF ok THEN pc' = "x_retry" /\ ret' = ret
             ELSE Return(Errorf(<<"cannot find datastore:", "%">>, <<errFind>>))
    /\ UNCHANGED <<remote, d, old, config, i, env, loop>>

\* deleteRetry.WaitForState(): the timeout, or one more deleteRetryFunc
DeleteRetry ==
    /\ pc = "x_retry"
    /\ \E callTime \in 0..MaxCallTime :
         LET t == NextRefreshTime(deleteRetry, loop.nRemove, loop.clock,
                                  loop.backoff, callTime)
             answer == Answer(env.remove, loop.nRemove + 1)
             r == deleteRetryFunc(RemoveError(answer))
             verdict == Verdict(deleteRetry, r)
         IN  IF t >= deleteRetry.Timeout
             THEN /\ loop' = [loop EXCEPT !.clock = deleteRetry.Timeout]
                  /\ remote' = remote
                  /\ AfterRetry(errTimeout(deleteRetry, loop.retryState))
             ELSE /\ removeDatastore(answer = "ok")
                  /\ loop' = [loop EXCEPT
                                 !.clock = IF verdict = "done" THEN 0 ELSE t,
                                 !.backoff = IF verdict = "done" THEN 0
                                             ELSE NextBackoff(deleteRetry, @),
                                 !.retryState = r.state,
                                 !.nRemove = @ + 1,
                                 !.lastRemove = t,
                                 !.notFound = IF verdict = "notfound" THEN @ + 1 ELSE 0]
                  /\ IF LoopContinues(deleteRetry, verdict, loop.notFound)
                     THEN pc' = pc /\ ret' = ret
                     ELSE AfterRetry(LoopError(deleteRetry, verdict, r))
    /\ UNCHANGED <<d, old, config, i, calls, env>>

\* waitForDelete.WaitForState(): the timeout, or one more waitForDeleteFunc
DeleteWait ==
    /\ pc = "x_wait"
    /\ \E callTime \in 0..MaxCallTime :
         LET t == NextRefreshTime(waitForDelete, loop.nFetch, loop.clock,
                                  loop.backoff, callTime)
             answer == Answer(env.fetch, loop.nFetch + 1)
             r == waitForDeleteFunc(FetchError(answer))
             verdict == Verdict(waitForDelete, r)
         IN  IF t >= waitForDelete.Timeout
             THEN /\ loop' = [loop EXCEPT !.clock = waitForDelete.Timeout]
                  /\ AfterWait(errTimeout(waitForDelete, loop.waitState))
             ELSE /\ loop' = [loop EXCEPT !.clock = t,
                                 !.backoff = NextBackoff(waitForDelete, @),
                                 !.waitState = r.state,
                                 !.nFetch = @ + 1,
                                 !.notFound = IF verdict = "notfound" THEN @ + 1 ELSE 0]
                  /\ IF LoopContinues(waitForDelete, verdict, loop.notFound)
                     THEN pc' = pc /\ ret' = ret
                     ELSE AfterWait(LoopError(waitForDelete, verdict, r))
    /\ UNCHANGED <<remote, d, old, config, i, calls, env>>

\* the answers of the removal primitive: "resource in use" some times, then
\* success or another error for good, or "resource in use" for ever
RemoveScripts ==
    {[k \in 1..n |-> "inuse"] \o <<last>> : n \in 0..MaxBusy, last \in {"ok", "other"}}
    \cup {<<"inuse">>}

\* the answers of the fetch by ID: found some times, then not found or
\* another error for good, or found for ever
FetchScripts ==
    {[k \in 1..n |-> "found"] \o <<last>> : n \in 0..MaxFound, last \in {"notfound", "other"}}
    \cup {<<"found">>}

InitDelete ==
    /\ old \in {st \in States : st.name = "ds-one" /\ st.folder = "" /\ Len(st.disks) = 1}
    /\ remote = DatastoreOf(old)
    /\ config = [id |-> DsId, host_system_id |-> HostId, name |-> old.name,
                 folder |-> old.folder, disks |-> old.disks]
    /\ d = config
    /\ pc = "x_dss"
    /\ i = 1
    /\ ret = nil
    /\ calls = <<>>
    /\ env \in [remove : RemoveScripts, fetch : FetchScripts]
    /\ loop = NoLoop

NextDelete ==
    \/ DeleteLoadHost
    \/ DeleteFindDatastore
    \/ DeleteRetry
    \/ DeleteWait

SpecDelete == InitDelete /\ [][NextDelete]_vars

\* the handler runs on: a step that can be taken is taken
SpecDeleteFair == SpecDelete /\ WF_vars(NextDelete)

----------------------------------------------------------------------------
(* Claims about Delete *)

\* the removal primitive fails with "resource in use" twice and then succeeds,
\* the fetch by ID reports the object found twice and then not found
FailsTwiceFoundTwice ==
    /\ env.remove = <<"inuse", "inuse", "ok">>
    /\ env.fetch = <<"found", "found", "notfound">>

\* C6: with a removal primitive that fails with "resource in use" twice and
\* then succeeds, and a fetch by ID that finds the object twice and then does
\* not, a Delete that reached its loops returns nil after exactly three
\* removals and exactly three wait-loop fetches, and no fetch of the wait
\* loop is made before the third removal.
C6_DeletionConvergence ==
    FailsTwiceFoundTwice =>
        /\ loop.nRemove <= 3
        /\ loop.nFetch <= 3
        /\ loop.nFetch > 0 => loop.nRemove = 3
        /\ (Returned /\ NoFailedCall) =>
              /\ ret = nil
              /\ loop.nRemove = 3
              /\ loop.nFetch = 3
              /\ ~remote.exists

C6_Witness ==
    /\ FailsTwiceFoundTwice
    /\ Returned
    /\ ret = nil
    /\ loop.nRemove = 3
    /\ loop.nFetch = 3

\* the removal primitive always fails with "resource in use"
AlwaysInUse == env.remove = <<"inuse">>

C7_Safety ==
    /\ loop.retryState # retryDeleteCompleted
    /\ pc # "x_wait"
    /\ loop.nFetch = 0
    /\ remote.exists
    /\ Returned => ret # nil
    /\ loop.nRemove > 0 =>
          /\ loop.lastRemove >= deleteRetry.Delay
          /\ loop.lastRemove < deleteRetry.Timeout
    /\ loop.clock <= deleteRetry.Timeout
    /\ (Returned /\ NoFailedCall) =>
          /\ loop.clock = deleteRetry.Timeout
          /\ loop.nRemove >= 2
          /\ Contains(ret, errTimeout(deleteRetry, retryDeletePending))

C7_Spacing ==
    (loop.nRemove > 0 /\ loop'.nRemove # loop.nRemove) =>
        /\ loop'.nRemove = loop.nRemove + 1
        /\ loop'.lastRemove >= loop.lastRemove + deleteRetry.MinTimeout

\* C7: with a removal primitive that always fails with "resource in use", the
\* retry loop never reaches completed and Delete never returns nil; the first
\* removal is made 2 s into the loop, later ones at least 2 s apart, none at or
\* after the loop's 30 s; a Delete that reached the loop returns the timeout
\* error at 30 s; and Delete does return.
C7_DeletionTimeout ==
    /\ [](AlwaysInUse => C7_Safety)
    /\ [][AlwaysInUse => C7_Spacing]_vars
    /\ (AlwaysInUse ~> (Returned /\ ret # nil))

C7_Witness ==
    /\ AlwaysInUse
    /\ Returned
    /\ loop.nRemove >= 3
    /\ loop.clock = deleteRetry.Timeout
    /\ ret # nil

C8_Outcome ==
    /\ (Returned /\ ret = nil) =>
          /\ loop.retryState = retryDeleteCompleted
          /\ loop.waitState = waitForDeleteCompleted
    /\ (pc = "x_wait" \/ loop.nFetch > 0) => loop.retryState = retryDeleteCompleted
    /\ (Returned /\ loop.retryState # retryDeleteCompleted) =>
          /\ ret # nil
          /\ loop.nFetch = 0
    /\ (Returned /\ loop.waitState # waitForDeleteCompleted) => ret # nil

C8_NoRemovalAfterRetryLoop ==
    (pc # "x_retry") => loop'.nRemove = loop.nRemove

\* C8: Delete returns nil only after the retry loop reached completed and then
\* the wait loop reached completed; when the retry loop ends in error or
\* timeout Delete returns an error and no wait-loop fetch is ever made; when
\* the wait loop ends in error or timeout Delete returns an error; and no
\* removal is made once the retry loop is over.
C8_BothLoopsOrError ==
    /\ []C8_Outcome
    /\ [][C8_NoRemovalAfterRetryLoop]_vars

\* the retry loop completed after a conflict, the wait loop then failed
C8_Witness ==
    /\ Returned
    /\ loop.nRemove = 2
    /\ loop.retryState = retryDeleteCompleted
    /\ loop.waitState = waitForDeleteError
    /\ loop.nFetch = 2
    /\ ret # nil

\* the most removals the retry loop has time for
MaxRemovals == deleteRetry.Timeout \div deleteRetry.MinTimeout

\* a step of the retry loop is the timeout, when the next removal would not
\* start before it, or exactly one removal, whose answer decides the loop
C17_Tick ==
    (pc = "x_retry") =>
        LET answer == Answer(env.remove, loop.nRemove + 1)
        IN  IF loop'.nRemove = loop.nRemove
            THEN /\ loop.clock + loop.backoff + MaxCallTime >= deleteRetry.Timeout
                 /\ pc' = "done"
                 /\ ret' # nil
                 /\ remote' = remote
            ELSE /\ loop'.nRemove = loop.nRemove + 1
                 /\ loop'.lastRemove < deleteRetry.Timeout
                 /\ CASE answer = "inuse" ->
                            /\ loop'.retryState = retryDeletePending
                            /\ pc' = "x_retry"
                            /\ ret' = nil
                            /\ remote' = remote
                      [] answer = "ok" ->
                            /\ loop'.retryState = retryDeleteCompleted
                            /\ pc' = "x_wait"
                            /\ ret' = nil
                            /\ ~remote'.exists
                      [] OTHER ->
                            /\ loop'.retryState = retryDeleteError
                            /\ pc' = "done"
                            /\ Contains(ret', errRemove)
                            /\ remote' = remote

\* no removal is made outside the retry loop
C17_NoFurtherRemoval == (pc # "x_retry") => loop'.nRemove = loop.nRemove

\* the loop has left pending for good once it is error or completed, and
\* Delete never returns the "resource in use" error
C17_Ended ==
    /\ loop.retryState \in {retryDeleteError, retryDeleteCompleted} => pc # "x_retry"
    /\ loop.retryState = retryDeleteError => (Returned /\ Contains(ret, errRemove))
    /\ ~Contains(ret, errResourceInUse)

\* C17: each tick of Delete's retry loop issues one removal; a "resource in
\* use" failure keeps the loop pending and is not returned, and another tick
\* follows unless the timeout has elapsed; the first failure of another kind
\* moves the loop to error, no further removal is made and Delete returns an
\* error carrying it; the first success moves the loop to completed and no
\* further removal is made.
C17_RetryLoop ==
    /\ [][C17_Tick /\ C17_NoFurtherRemoval]_vars
    /\ []C17_Ended
    /\ \A n \in 0..MaxRemovals :
          (pc = "x_retry" /\ loop.nRemove = n) ~> (loop.nRemove = n + 1 \/ Returned)

\* the second removal failed with another error after a conflict
C17_Witness ==
    /\ Returned
    /\ env.remove = <<"inuse", "other">>
    /\ loop.nRemove = 2
    /\ loop.retryState = retryDeleteError
    /\ loop.nFetch = 0
    /\ Contains(ret, errRemove)
    /\ remote.exists

\* a step of the wait loop is the timeout, when the next fetch would not
\* start before it, or exactly one fetch by ID, whose answer decides the loop
C18_Tick ==
    (pc = "x_wait") =>
        LET answer == Answer(env.fetch, loop.nFetch + 1)
        IN  IF loop'.nFetch = loop.nFetch
            THEN /\ loop.clock + loop.backoff + MaxCallTime >= waitForDelete.Timeout
                 /\ pc' = "done"
                 /\ ret' # nil
            ELSE /\ loop'.nFetch = loop.nFetch + 1
                 /\ CASE answer = "found" ->
                            /\ loop'.waitState = waitForDeletePending
                            /\ pc' = "x_wait"
                            /\ ret' = nil
                      [] answer = "notfound" ->
                            /\ loop'.waitState = waitForDeleteCompleted
                            /\ pc' = "done"
                            /\ ret' = nil
                      [] OTHER ->
                            /\ loop'.waitState = waitForDeleteError
                            /\ pc' = "done"
                            /\ Contains(ret', errFind)

\* no fetch of the wait loop is made outside it
C18_NoFurtherFetch == (pc # "x_wait") => loop'.nFetch = loop.nFetch

\* when the loop ended with a fetch, every fetch before its last found the
\* datastore; completed takes one not-found answer, never NotFoundChecks of
\* them
C18_Ended ==
    /\ loop.notFound = 0
    /\ loop.waitState \in {waitForDeleteCompleted, waitForDeleteError} =>
          /\ Returned
          /\ \A n \in 1..(loop.nFetch - 1) : Answer(env.fetch, n) = "found"
    /\ loop.waitState = waitForDeleteCompleted =>
          /\ ret = nil
          /\ Answer(env.fetch, loop.nFetch) = "notfound"
    /\ loop.waitState = waitForDeleteError =>
          /\ Contains(ret, errFind)
          /\ Answer(env.fetch, loop.nFetch) = "other"

\* C18: in Delete's wait loop a fetch by ID that succeeds keeps the loop
\* pending and another poll follows; the first fetch that fails as not found
\* moves the loop to completed and Delete returns nil with no further fetch
\* (NotFoundChecks = 35 asks for no further not-found answer); the first
\* fetch that fails with another error moves the loop to error and Delete
\* returns an error.
C18_WaitLoop ==
    /\ [][C18_Tick /\ C18_NoFurtherFetch]_vars
    /\ []C18_Ended
    /\ \A n \in 0..MaxFound :
          (pc = "x_wait" /\ loop.nFetch = n) ~> (loop.nFetch = n + 1 \/ Returned)

\* the datastore was found three times and then not found
C18_Witness ==
    /\ Returned
    /\ env.fetch = <<"found", "found", "found", "notfound">>
    /\ loop.nFetch = 4
    /\ loop.waitState = waitForDeleteCompleted
    /\ ret = nil
    /\ ~remote.exists

----------------------------------------------------------------------------
(* resourceVSphereVmfsDatastoreImport *)

\* strings.SplitN(s, sep, 2): s itself when it holds no separator, else what
\* is before and what is after the first separator
SplitN2(s, sep) ==
    LET hits == {k \in 1..Len(s) : s[k] = sep}
    IN  IF hits = {} THEN <<s>>
        ELSE LET k == CHOOSE h \in hits : \A m \in hits : h <= m
             IN  <<SubSeq(s, 1, k - 1), SubSeq(s, k + 1, Len(s))>>

errImportFormat ==
    <<"please supply the ID in the following format: DATASTOREID:HOSTID">>

VMFS == "VMFS"

\* a validation that does not look at the host-mount list
ImportCheckSkipsMounts(id, hsID) ==
    IF remote.type # VMFS
    THEN Errorf(<<"datastore ID", "%", "is not a VMFS datastore">>, <<id>>)
    ELSE nil

\* the checks of the fetched properties: the volume type, then the mounts
ImportCheck(id, hsID) ==
    IF remote.type # VMFS
    THEN Errorf(<<"datastore ID", "%", "is not a VMFS datastore">>, <<id>>)
    ELSE IF ~\E mount \in remote.mounts : mount = hsID
    THEN Errorf(<<"configured host_system_id", "%",
                  "not found as a mounted host on datastore">>, <<hsID>>)
    ELSE nil

\* strings.SplitN and the test of the number of parts
ImportParse ==
    /\ pc = "m_parse"
    /\ IF Len(SplitN2(d.id, ":")) # 2
       THEN Return(errImportFormat)
       ELSE pc' = "m_find" /\ ret' = ret
    /\ UNCHANGED <<remote, d, old, config, i, calls, env, loop>>

\* datastoreFromID(client, ids[0])
ImportFindDatastore ==
    /\ pc = "m_find"
    /\ \E ok \in {b \in BOOLEAN : b => canFind(SplitN2(d.id, ":")[1])} :
          /\ calls' = Append(calls, Call("datastoreFromID", "", ok))
          /\ IF ok THEN pc' = "m_props" /\ ret' = ret
             ELSE Return(Errorf(<<"cannot find datastore:", "%">>, <<errFind>>))
    /\ UNCHANGED <<remote, d, old, config, i, env, loop>>

\* datastoreProperties(ds)
ImportProperties ==
    /\ pc = "m_props"
    /\ \E ok \in BOOLEAN :
          /\ calls' = Append(calls, Call("datastoreProperties", "", ok))
          /\ IF ok THEN pc' = "m_check" /\ ret' = ret
             ELSE Return(Errorf(<<"could not get properties for datastore:", "%">>,
                                <<errProps>>))
    /\ UNCHANGED <<remote, d, old, config, i, env, loop>>

\* the type and mount checks, then d.SetId(id) and d.Set("host_system_id", hsID)
ImportValidate ==
    /\ pc = "m_check"
    /\ LET id == SplitN2(d.id, ":")[1]
           hsID == SplitN2(d.id, ":")[2]
           e == ImportCheck(id, hsID)
       IN  /\ d' = IF e = nil THEN [d EXCEPT !.id = id, !.host_system_id = hsID]
                   ELSE d
           /\ Return(e)
    /\ UNCHANGED <<remote, old, config, i, calls, env, loop>>

\* the characters identifiers are made of
IdChars == {"d", "h", ":"}

\* the datastores Import can meet: none, or one of either type mounted on
\* any of two hosts
ImportDatastores ==
    {NoDatastore} \cup
    {[DatastoreOf([name |-> "ds-one", folder |-> "", disks |-> <<"disk-a">>])
        EXCEPT !.type = t, !.mounts = m] :
        t \in {VMFS, "NFS"}, m \in SUBSET {HostId, <<"h", "h">>}}

InitImport ==
    /\ remote \in ImportDatastores
    /\ config \in [id : SeqsOf(IdChars, 0, MaxIdLen), host_system_id : {nil},
                   name : {""}, folder : {""}, disks : {<<>>}]
    /\ d = config
    /\ old = NoState
    /\ pc = "m_parse"
    /\ i = 1
    /\ ret = nil
    /\ calls = <<>>
    /\ env = NoEnv
    /\ loop = NoLoop

NextImport ==
    \/ ImportParse
    \/ ImportFindDatastore
    \/ ImportProperties
    \/ ImportValidate

SpecImport == InitImport /\ [][NextImport]_vars

----------------------------------------------------------------------------
(* Claims about Import *)

\* the identifier is not two non-empty parts around its first colon: it has
\* no colon, or starts with its first colon, or ends with it
Malformed(id) ==
    \/ \A k \in 1..Len(id) : id[k] # ":"
    \/ id[1] = ":"
    \/ (id[Len(id)] = ":" /\ \A k \in 1..(Len(id) - 1) : id[k] # ":")

\* the part before and the part after the first colon of a well-formed one
DsPart(id) == SubSeq(id, 1, (CHOOSE k \in 1..Len(id) :
                  id[k] = ":" /\ \A m \in 1..(k - 1) : id[m] # ":") - 1)
HostPart(id) == SubSeq(id, Len(DsPart(id)) + 2, Len(id))

IsFormatError(e) == e = errImportFormat
IsTypeMismatch(e) == "is not a VMFS datastore" \in Range(e)
IsMissingMembership(e) == "not found as a mounted host on datastore" \in Range(e)

NotSeeded == d = config

\* C9: Import rejects every identifier that is not two non-empty parts around
\* its first colon with the format error, before any remote call and without
\* seeding the identifier or the host reference.
C9_MalformedIdRejected ==
    Malformed(config.id) =>
        /\ calls = <<>>
        /\ NotSeeded
        /\ Returned => IsFormatError(ret)

\* the validation of Import, by the type and the mounts of the datastore
ValidationResult ==
    LET id == DsPart(config.id)
        hsID == HostPart(config.id)
    IN  IF remote.type # VMFS THEN IsTypeMismatch(ret) /\ Contains(ret, id) /\ NotSeeded
        ELSE IF hsID \notin remote.mounts
        THEN IsMissingMembership(ret) /\ Contains(ret, hsID) /\ NotSeeded
        ELSE /\ ret = nil
             /\ d.id = id
             /\ d.host_system_id = hsID

\* C10, as stated: for a well-formed identifier whose datastore exists, Import
\* fails with the type mismatch when the type is not VMFS, else with the
\* missing membership when no mount has the host as key, else succeeds and
\* seeds both fields; on a failing path neither field is changed.
C10_ImportValidationAsStated ==
    /\ (Returned /\ ~Malformed(config.id) /\ canFind(DsPart(config.id))) =>
          ValidationResult
    /\ (Returned /\ ret # nil) => NotSeeded

\* C10, amended: the same, for a well-formed identifier whose datastore lookup
\* and property fetch both succeeded.
C10_ImportValidation ==
    /\ (Returned /\ ~Malformed(config.id) /\ canFind(DsPart(config.id))
          /\ Len(calls) = 2 /\ NoFailedCall) =>
          ValidationResult
    /\ (Returned /\ ret # nil) => NotSeeded
    /\ ~Returned => NotSeeded

\* "d:h" was imported: a VMFS datastore mounted on host h among others
C10_Witness ==
    /\ Returned
    /\ config.id = <<"d", ":", "h">>
    /\ remote.type = VMFS
    /\ Cardinality(remote.mounts) = 2
    /\ ret = nil
    /\ d.id = <<"d">>
    /\ d.host_system_id = <<"h">>

====
